---- MODULE Spec2Model ----
(***************************************************************************)
(* A model of sweep_PR.py: main()'s loop over the merge commits of the     *)
(* scanned branch and, for each of them, cherryPickPr(), followed call by  *)
(* call.  Every forge API call and every git command is one step; a forge  *)
(* call may raise GithubException and a git command may return a non-zero  *)
(* status.  An exception that no try block of the source catches ends the  *)
(* run (pc = "aborted").                                                   *)
(*                                                                         *)
(* Strings are Python str values.  A text built from f-strings is kept as  *)
(* the sequence of its pieces (the literal parts and the interpolated      *)
(* values), so "contains" and "replace" act on pieces.                     *)
(***************************************************************************)
EXTENDS Integers, Sequences, FiniteSets, TLC

\* ------------------------------------------------------------------------
\* Bounds of the model
\* ------------------------------------------------------------------------
\* largest number of labels on the originating pull request
MaxLabels == 2
\* largest number of files changed by the originating pull request
MaxPaths == 2
\* largest number of failing calls (API errors, non-zero exit statuses) in a run
MaxFaults == 1

\* ------------------------------------------------------------------------
\* Python string functions
\* ------------------------------------------------------------------------
CharAt(s, i) == SubSeq(s, i, i)

\* str.startswith
StartsWith(s, p) == Len(s) >= Len(p) /\ SubSeq(s, 1, Len(p)) = p

RECURSIVE SplitAt(_, _, _, _)
SplitAt(s, sep, start, i) ==
    IF i > Len(s) THEN << SubSeq(s, start, Len(s)) >>
    ELSE IF CharAt(s, i) = sep
         THEN << SubSeq(s, start, i - 1) >> \o SplitAt(s, sep, i + 1, i + 1)
         ELSE SplitAt(s, sep, start, i + 1)

\* str.split(sep) for a one-character separator
Split(s, sep) == SplitAt(s, sep, 1, 1)

\* the text of s from start on, with the occurrences of old that start at one
\* of hits replaced by new, left to right and without overlap
RECURSIVE StrReplaceAt(_, _, _, _, _)
StrReplaceAt(s, old, new, hits, start) ==
    LET later == {h \in hits : h >= start}
    IN IF later = {} THEN SubSeq(s, start, Len(s))
       ELSE LET h == CHOOSE x \in later : \A y \in later : x <= y
            IN SubSeq(s, start, h - 1) \o new
                  \o StrReplaceAt(s, old, new, hits, h + Len(old))

\* str.replace(old, new), old not empty
StrReplace(s, old, new) ==
    LET hits == {i \in 1..(Len(s) - Len(old) + 1) : SubSeq(s, i, i + Len(old) - 1) = old}
    IN IF hits = {} THEN s ELSE StrReplaceAt(s, old, new, hits, 1)

\* os.path.basename / os.path.dirname of a path without a trailing slash
Basename(s) == LET parts == Split(s, "/") IN parts[Len(parts)]

RECURSIVE JoinParts(_, _, _)
JoinParts(parts, sep, n) ==
    IF n = 0 THEN ""
    ELSE IF n = 1 THEN parts[1]
    ELSE JoinParts(parts, sep, n - 1) \o sep \o parts[n]

Dirname(s) == LET parts == Split(s, "/") IN JoinParts(parts, "/", Len(parts) - 1)

\* str.encode("ascii", "replace"): the result is a bytes object, which in
\* Python 3 never compares equal to a str.  Values that are compared with ==
\* across the two types carry their type.  (The labels of the model are
\* ASCII, so no character is replaced by "?".)
PyStr(s) == [type |-> "str", v |-> s]
EncodeAscii(s) == [type |-> "bytes", v |-> s]
PyEq(a, b) == a.type = b.type /\ a.v = b.v

DigitChars == {"0", "1", "2", "3", "4", "5", "6", "7", "8", "9"}

RECURSIVE DigitRun(_, _)
\* the longest run of digits of s starting at position i
DigitRun(s, i) ==
    IF i <= Len(s) /\ CharAt(s, i) \in DigitChars
    THEN CharAt(s, i) \o DigitRun(s, i + 1)
    ELSE ""

RECURSIVE StripZeros(_)
\* str(int(digits))
StripZeros(d) == IF Len(d) > 1 /\ CharAt(d, 1) = "0" THEN StripZeros(SubSeq(d, 2, Len(d))) ELSE d

RECURSIVE IntToStr(_)
\* str(n) for n >= 0
IntToStr(n) ==
    IF n < 10 THEN CharAt("0123456789", n + 1)
    ELSE IntToStr(n \div 10) \o CharAt("0123456789", (n % 10) + 1)

\* ------------------------------------------------------------------------
\* Regular expressions (the part of Python's re that the program's patterns
\* use: an optional leading ^, literal characters, ".", and "*" after either)
\* ------------------------------------------------------------------------
RECURSIVE CountChar(_, _, _)
CountChar(s, c, i) ==
    IF i > Len(s) THEN 0
    ELSE (IF CharAt(s, i) = c THEN 1 ELSE 0) + CountChar(s, c, i + 1)

\* re.compile raises re.error on a malformed pattern: unbalanced parentheses
\* or a leading repetition
ReCompiles(p) ==
    /\ CountChar(p, "(", 1) = CountChar(p, ")", 1)
    /\ ~StartsWith(p, "*")

RECURSIVE MatchHere(_, _, _, _)
MatchHere(p, i, s, j) ==
    IF i > Len(p) THEN TRUE
    ELSE IF i < Len(p) /\ CharAt(p, i + 1) = "*"
         THEN \E k \in j..(Len(s) + 1) :
                 /\ \A m \in j..(k - 1) : CharAt(p, i) = "." \/ CharAt(p, i) = CharAt(s, m)
                 /\ MatchHere(p, i + 2, s, k)
         ELSE /\ j <= Len(s)
              /\ (CharAt(p, i) = "." \/ CharAt(p, i) = CharAt(s, j))
              /\ MatchHere(p, i + 1, s, j + 1)

\* re.match(p, s): the pattern matches at the start of s
ReMatch(p, s) == MatchHere(p, IF StartsWith(p, "^") THEN 2 ELSE 1, s, 1)

\* re.search("Merge pull request #(\\d+)", out): the digits of the first
\* match, "" when there is none
PrMarker == "Merge pull request #"

SearchPrId(out) ==
    LET n == Len(PrMarker)
        hits == {i \in 1..Len(out) :
                    /\ i + n <= Len(out)
                    /\ SubSeq(out, i, i + n - 1) = PrMarker
                    /\ CharAt(out, i + n) \in DigitChars}
    IN IF hits = {} THEN ""
       ELSE LET first == CHOOSE i \in hits : \A k \in hits : i <= k
            IN DigitRun(out, first + n)

\* re.search(r"Adding original author @(.+) as watcher.", body): group 1,
\* "" when there is no match.  (.+) is greedy and stays on one line, so the
\* last " as watcher" that is followed by a character other than a newline
\* ends the group.
AuthorLead == "Adding original author @"
AuthorTail == " as watcher"

SearchAuthor(body) ==
    LET a == Len(AuthorLead)
        t == Len(AuthorTail)
        leads == {s \in 1..Len(body) :
                    /\ s + a - 1 <= Len(body)
                    /\ SubSeq(body, s, s + a - 1) = AuthorLead}
        tails == {e \in 1..Len(body) :
                    /\ e + t <= Len(body)
                    /\ SubSeq(body, e, e + t - 1) = AuthorTail
                    /\ CharAt(body, e + t) # "\n"}
        spans == {se \in leads \X tails :
                    /\ se[2] > se[1] + a
                    /\ \A m \in (se[1] + a)..(se[2] - 1) : CharAt(body, m) # "\n"}
    IN IF spans = {} THEN ""
       ELSE LET s0 == CHOOSE s \in {se[1] : se \in spans} :
                          \A k \in {se[1] : se \in spans} : s <= k
                e0 == CHOOSE e \in {se[2] : se \in {x \in spans : x[1] = s0}} :
                          \A k \in {se[2] : se \in {x \in spans : x[1] = s0}} : e >= k
            IN SubSeq(body, s0 + a, e0 - 1)


\* re.search(r"(BEGINRELEASENOTES(?:.|\s)+ENDRELEASENOTES)", body): group 1,
\* "" when there is no match (first BEGIN marker to the last END marker)
NotesBegin == "BEGINRELEASENOTES"
NotesEnd == "ENDRELEASENOTES"

SearchReleaseNotes(body) ==
    LET b == Len(NotesBegin)
        e == Len(NotesEnd)
        starts == {i \in 1..Len(body) :
                      i + b - 1 <= Len(body) /\ SubSeq(body, i, i + b - 1) = NotesBegin}
        ends == {i \in 1..Len(body) :
                      i + e - 1 <= Len(body) /\ SubSeq(body, i, i + e - 1) = NotesEnd}
    IN IF starts = {} THEN ""
       ELSE LET s0 == CHOOSE i \in starts : \A k \in starts : i <= k
                after == {i \in ends : i > s0 + b}
            IN IF after = {} THEN ""
               ELSE LET e0 == CHOOSE i \in after : \A k \in after : i >= k
                    IN SubSeq(body, s0, e0 + e - 1)

RECURSIVE SkipSpaces(_, _)
SkipSpaces(s, i) == IF i <= Len(s) /\ CharAt(s, i) = " " THEN SkipSpaces(s, i + 1) ELSE i

\* re.fullmatch(r"\[[^\]]+\]\s+(.+)", title): group 1, or the title itself
\* when it has no leading bracketed tag
StripTitleTag(title) ==
    LET closes == {i \in 3..Len(title) : CharAt(title, i) = "]"}
    IN IF ~StartsWith(title, "[") \/ closes = {} THEN title
       ELSE LET c == CHOOSE i \in closes : \A k \in closes : i <= k
                r == SkipSpaces(title, c + 1)
            IN IF r = c + 1 THEN title
               ELSE IF r <= Len(title) THEN SubSeq(title, r, Len(title))
               ELSE IF r - 1 > c + 1 THEN " "
               ELSE title

\* ------------------------------------------------------------------------
\* shlex.quote and the texts built from f-strings
\* ------------------------------------------------------------------------
SafeCharString == "abcdefghijklmnopqrstuvwxyzABCDEFGHIJKLMNOPQRSTUVWXYZ0123456789_@%+=:,./-"
SafeChars == {CharAt(SafeCharString, i) : i \in 1..Len(SafeCharString)}

IsShellSafe(s) == Len(s) > 0 /\ \A i \in 1..Len(s) : CharAt(s, i) \in SafeChars

\* shlex.quote of the text whose pieces are ps
ShlexQuote(ps) ==
    IF (\E i \in 1..Len(ps) : Len(ps[i]) > 0) /\ (\A i \in 1..Len(ps) : ps[i] = "" \/ IsShellSafe(ps[i]))
    THEN ps
    ELSE <<"'">> \o [i \in 1..Len(ps) |-> StrReplace(ps[i], "'", "'\"'\"'")] \o <<"'">>

\* text.replace(old, new) where old occurs only as a whole piece
ReplacePiece(ps, old, new) == [i \in 1..Len(ps) |-> IF ps[i] = old THEN new ELSE ps[i]]

\* text.replace("\n", "\n  ")
IndentText(ps) == [i \in 1..Len(ps) |-> StrReplace(ps[i], "\n", "\n  ")]

\* sub in text, for a sub that lies inside one piece
TextContains(ps, sub) ==
    \E i \in 1..Len(ps) : \E k \in 1..(Len(ps[i]) - Len(sub) + 1) :
        SubSeq(ps[i], k, k + Len(sub) - 1) = sub

RECURSIVE Flatten(_)
Flatten(seqs) == IF seqs = <<>> THEN <<>> ELSE Head(seqs) \o Flatten(Tail(seqs))

FailedIssuePlaceholder == "@@@FAILED_ISSUE_ID@@@"


\* ------------------------------------------------------------------------
\* The run's environment: command line, repository and forge contents
\* ------------------------------------------------------------------------
source_branch == "origin/master"
project_name == "upstream-org/project"
pr_project_name == "sweeper-bot/project"

Strategies == {"merge", "cherry-pick", "rebase"}

\* the labels a pull request of the model may carry
LabelUniverse ==
    {"sweep:done", "sweep:ignore", "sweptFrom:rel-6", "sweep:from rel-7",
     "alsoTargeting:rel-7", "alsoTargeting:rel-8", "alsoTargeting:",
     "alsoTargeting:rel-7:hotfix"}

LabelSets == {L \in SUBSET LabelUniverse : Cardinality(L) <= MaxLabels}

\* the files a pull request of the model may change
PathUniverse == {"Detector/Calo/x.cpp", "Detector/Track/y.cpp", "Core/y.cpp"}

PathSets == {P \in SUBSET PathUniverse : Cardinality(P) <= MaxPaths}

\* the sweep-targets tables Sweep/config.yaml may hold for the scanned branch
\* (pattern -> branches); the last one has a malformed pattern
RuleTables ==
    {[r \in {} |-> {}],
     [r \in {"^Detector/.*"} |-> {"rel-7"}],
     ("^Detector/.*" :> {"rel-7"}) @@ ("Core/.*" :> {"rel-7", "rel-8"}),
     ("^Detector/.*" :> {"rel-8"}) @@ ("(Core/.*" :> {"rel-7"})}

\* the branch names of the model in sorted() order
BranchNames == <<"", "rel-7", "rel-8">>

\* sorted(S) for a set of branch names
Sorted(S) == SelectSeq(BranchNames, LAMBDA b : b \in S)

\* what "git show <merge commit>" may print
ShowOutputs ==
    {"Merge: 1a2b3c4 5d6e7f8\n    Merge pull request #012 from fork/fix-x\n",
     "Merge: 1a2b3c4 5d6e7f8\n    Merge branch 'devel' into master\n",
     ""}

\* the originating pull request of each merge commit
PullRequestOf(commit) ==
    IF commit = "3f2a1bc"
    THEN [title |-> "[v7r2] Fix Y", login |-> "sweeper-bot",
          body |-> "Sweep #7 Fix Y to rel-9.\n\nAdding original author @alice as watcher.\n\nBEGINRELEASENOTES\n*Core\nFIX: y\nENDRELEASENOTES\n"]
    ELSE [title |-> "Fix X", login |-> "bob", body |-> "Fixes the x.\n"]

\* repo.get_commits(author=user)[0].commit.author
CommitAuthor(login) ==
    IF login = "alice" THEN [name |-> "Alice A", email |-> "alice@example.org"]
    ELSE [name |-> "Bob B", email |-> "bob@example.org"]

VARIABLES
    pc,                       \* the statement the run is at
    strategy, dry_run,        \* command line
    mergeCommits,             \* merge commits of the scanned branch in the window
    configRules,              \* the sweep-targets of Sweep/config.yaml for the scanned branch
    prFiles,                  \* forge: files changed by the originating PR of each merge commit
    labelsAtStart,            \* forge: the labels of each originating PR when the run started
    target_branch_rules,      \* main: the rule table
    PR_list,                  \* main: merge commits still to process
    prLabels,                 \* forge: labels of the originating PR of each merge commit
    pulls, issues, comments,  \* forge: pull requests, issues and comments created
    forgeNumber,              \* forge: number of the next pull request or issue
    log,                      \* every forge call and git command made, in order
    faults,                   \* number of failed calls
    uncaught,                 \* the call whose exception nothing caught
    merge_commit, PR_IID, release_notes, original_pr_author, pr_author, orig_pr_title,
    labels, labelsTodo, target_branches, target_branches_exclude,
    affected_packages, rulesTodo,
    branchesTodo, tbranch, failed, good_branches, failed_branches,
    failed_last,              \* the entry the loop of the report visited last
    pr_body

argVars == <<strategy, dry_run, mergeCommits, configRules, prFiles, labelsAtStart,
            target_branch_rules>>
forgeVars == <<prLabels, pulls, issues, comments, forgeNumber>>
metaVars == <<merge_commit, PR_IID, release_notes, original_pr_author, pr_author, orig_pr_title>>
targetVars == <<labels, labelsTodo, target_branches, target_branches_exclude,
                affected_packages, rulesTodo>>
publishVars == <<branchesTodo, tbranch, failed, good_branches, failed_branches,
                 failed_last, pr_body>>

vars == <<pc, argVars, PR_list, forgeVars, log, faults, uncaught,
          metaVars, targetVars, publishVars>>

\* the locals of cherryPickPr before its first statement
FreshLocals ==
    /\ PR_IID = ""
    /\ release_notes = ""
    /\ original_pr_author = ""
    /\ pr_author = ""
    /\ orig_pr_title = ""
    /\ labels = {}
    /\ labelsTodo = {}
    /\ target_branches = {}
    /\ target_branches_exclude = {}
    /\ affected_packages = {}
    /\ rulesTodo = {}
    /\ branchesTodo = {}
    /\ tbranch = ""
    /\ failed = FALSE
    /\ good_branches = {}
    /\ failed_branches = {}
    /\ failed_last = <<>>
    /\ pr_body = <<>>

FreshLocalsNext ==
    /\ PR_IID' = ""
    /\ release_notes' = ""
    /\ original_pr_author' = ""
    /\ pr_author' = ""
    /\ orig_pr_title' = ""
    /\ labels' = {}
    /\ labelsTodo' = {}
    /\ target_branches' = {}
    /\ target_branches_exclude' = {}
    /\ affected_packages' = {}
    /\ rulesTodo' = {}
    /\ branchesTodo' = {}
    /\ tbranch' = ""
    /\ failed' = FALSE
    /\ good_branches' = {}
    /\ failed_branches' = {}
    /\ failed_last' = <<>>
    /\ pr_body' = <<>>

InitForge ==
    /\ pulls = <<>> /\ issues = <<>> /\ comments = <<>>
    /\ forgeNumber = 100

InitRun ==
    /\ pc = "get_repo"
    /\ strategy \in Strategies
    /\ dry_run \in BOOLEAN
    /\ target_branch_rules = [r \in {} |-> {}]
    /\ PR_list = {}
    /\ log = <<>> /\ faults = 0 /\ uncaught = ""
    /\ merge_commit = ""
    /\ FreshLocals

\* The pull requests the runs start from: every label set with the rule
\* table and changed files of DefaultInput, and every rule table and set of
\* changed files with the label sets of RuleCaseLabels.
DefaultRules == [r \in {"^Detector/.*"} |-> {"rel-7"}]
DefaultFiles == {"Detector/Calo/x.cpp"}
RuleCaseLabels == {{}, {"sweep:from rel-7"}, {"alsoTargeting:rel-8"}}

Inputs ==
    [labels : LabelSets, rules : {DefaultRules}, files : {DefaultFiles}]
    \cup [labels : RuleCaseLabels, rules : RuleTables, files : PathSets]

\* one merge commit in the window
Init ==
    /\ InitRun
    /\ InitForge
    /\ mergeCommits = {"3f2a1bc"}
    /\ \E input \in Inputs :
          /\ prLabels = [c \in mergeCommits |-> input.labels]
          /\ labelsAtStart = prLabels
          /\ prFiles = [c \in mergeCommits |-> input.files]
          /\ configRules = input.rules

\* ------------------------------------------------------------------------
\* Calls: a forge call or git command is logged with its outcome
\* ------------------------------------------------------------------------
\* the branch field of a call that is not about a target branch
NoBranch == "<none>"

Call(op, branch, ok) == [op |-> op, commit |-> merge_commit, branch |-> branch, ok |-> ok]

\* the calls that change the forge, the remote repositories or the working copy
WriteOps ==
    {"set_labels", "create_git_ref", "merge", "git fetch upstream", "git fetch origin",
     "git checkout", "git cherry-pick", "git cherry-pick --abort", "git commit --amend",
     "git push", "create_pull", "pr.add_to_labels", "add_to_labels", "create_issue",
     "issue.add_to_labels", "create_issue_comment"}

Logged(entries) ==
    /\ log' = log \o entries
    /\ faults' = faults + Cardinality({i \in 1..Len(entries) : ~entries[i].ok})
    /\ faults + Cardinality({i \in 1..Len(entries) : ~entries[i].ok}) <= MaxFaults

\* an exception leaves cherryPickPr and main uncaught: the run ends
Raise(op) == pc' = "aborted" /\ uncaught' = op


\* ------------------------------------------------------------------------
\* main
\* ------------------------------------------------------------------------
\* gh.get_repo(args.project_name): a failure is fatal, sys.exit(1)
GetRepo ==
    /\ pc = "get_repo"
    /\ \E ok \in BOOLEAN :
          /\ Logged(<<Call("get_repo", NoBranch, ok)>>)
          /\ pc' = IF ok THEN "get_pr_repo" ELSE "exit1"
    /\ UNCHANGED <<argVars, PR_list, forgeVars, uncaught, metaVars, targetVars, publishVars>>

\* gh.get_repo(args.pr_project_name): a failure is fatal, sys.exit(1)
GetPrRepo ==
    /\ pc = "get_pr_repo"
    /\ \E ok \in BOOLEAN :
          /\ Logged(<<Call("get_pr_repo", NoBranch, ok)>>)
          /\ pc' = IF ok THEN "setup" ELSE "exit1"
    /\ UNCHANGED <<argVars, PR_list, forgeVars, uncaught, metaVars, targetVars, publishVars>>

\* git fetch --prune, getSweepTargetBranchRules, getListOfMergeCommits: a
\* failed fetch and an empty (or failed) merge list end the run; no rules
\* (None) become the empty table
Setup ==
    /\ pc = "setup"
    /\ \E fetched \in BOOLEAN, listed \in {mergeCommits, {}} :
          /\ Logged(<<Call("git fetch --prune", NoBranch, fetched)>>)
          /\ IF ~fetched
             THEN /\ pc' = "exit0"
                  /\ UNCHANGED <<target_branch_rules, PR_list>>
             ELSE /\ target_branch_rules' = configRules
                  /\ PR_list' = listed
                  /\ pc' = IF listed = {} THEN "exit0" ELSE "main_loop"
    /\ UNCHANGED <<strategy, dry_run, mergeCommits, configRules, prFiles, labelsAtStart,
                   forgeVars, uncaught,
                   metaVars, targetVars, publishVars>>

\* for pr in PR_list: cherryPickPr(...); after the last one main returns
MainLoop ==
    /\ pc = "main_loop"
    /\ IF PR_list = {}
       THEN /\ pc' = "exit0"
            /\ UNCHANGED <<PR_list, metaVars, targetVars, publishVars>>
       ELSE \E pr \in PR_list :
               /\ PR_list' = PR_list \ {pr}
               /\ merge_commit' = pr
               /\ FreshLocalsNext
               /\ pc' = "get_commit"
    /\ UNCHANGED <<argVars, forgeVars, log, faults, uncaught>>

\* ------------------------------------------------------------------------
\* cherryPickPr: the change's metadata
\* ------------------------------------------------------------------------
\* repo.get_commit(merge_commit); on GithubException: log and return
GetCommit ==
    /\ pc = "get_commit"
    /\ \E ok \in BOOLEAN :
          /\ Logged(<<Call("get_commit", NoBranch, ok)>>)
          /\ pc' = IF ok THEN "git_show" ELSE "main_loop"
    /\ UNCHANGED <<argVars, PR_list, forgeVars, uncaught, metaVars, targetVars, publishVars>>

\* git show <merge commit> (its status is dropped) and the search for the
\* pull request number in its output; without a match: log and return
GitShow ==
    /\ pc = "git_show"
    /\ \E out \in ShowOutputs :
          /\ Logged(<<Call("git show", NoBranch, out # "")>>)
          /\ IF SearchPrId(out) # ""
             THEN /\ PR_IID' = StripZeros(SearchPrId(out))
                  /\ pc' = "get_pull"
             ELSE /\ PR_IID' = PR_IID
                  /\ pc' = "main_loop"
    /\ UNCHANGED <<argVars, PR_list, forgeVars, uncaught, targetVars, publishVars,
                   merge_commit, release_notes, original_pr_author, pr_author, orig_pr_title>>

\* GetPull outside the try block: its exception ends the run
GetPullUncaught ==
    /\ pc = "get_pull"
    /\ \E ok \in BOOLEAN :
          LET pr_handle == PullRequestOf(merge_commit) IN
          /\ Logged(<<Call("get_pull", NoBranch, ok)>>)
          /\ IF ok
             THEN /\ release_notes' = SearchReleaseNotes(pr_handle.body)
                  /\ original_pr_author' =
                        IF SearchAuthor(pr_handle.body) # ""
                        THEN SearchAuthor(pr_handle.body)
                        ELSE pr_handle.login
                  /\ orig_pr_title' = StripTitleTag(pr_handle.title)
                  /\ pc' = "get_user"
                  /\ UNCHANGED uncaught
             ELSE /\ UNCHANGED <<release_notes, original_pr_author, orig_pr_title>>
                  /\ Raise("get_pull")
    /\ UNCHANGED <<argVars, PR_list, forgeVars, targetVars, publishVars,
                   merge_commit, PR_IID, pr_author>>

\* repo.get_pull(PR_IID); on GithubException: log and return.  Then the
\* release notes, the original author and the title are taken from the
\* pull request.
GetPull ==
    /\ pc = "get_pull"
    /\ \E ok \in BOOLEAN :
          LET pr_handle == PullRequestOf(merge_commit) IN
          /\ Logged(<<Call("get_pull", NoBranch, ok)>>)
          /\ IF ok
             THEN /\ release_notes' = SearchReleaseNotes(pr_handle.body)
                  /\ original_pr_author' =
                        IF SearchAuthor(pr_handle.body) # ""
                        THEN SearchAuthor(pr_handle.body)
                        ELSE pr_handle.login
                  /\ orig_pr_title' = StripTitleTag(pr_handle.title)
                  /\ pc' = "get_user"
             ELSE /\ UNCHANGED <<release_notes, original_pr_author, orig_pr_title>>
                  /\ pc' = "main_loop"
    /\ UNCHANGED <<argVars, PR_list, forgeVars, uncaught, targetVars, publishVars,
                   merge_commit, PR_IID, pr_author>>

\* gh.get_user(original_pr_author): outside every try block
GetUser ==
    /\ pc = "get_user"
    /\ \E ok \in BOOLEAN :
          /\ Logged(<<Call("get_user", NoBranch, ok)>>)
          /\ IF ok THEN pc' = "get_commits" /\ UNCHANGED uncaught
                   ELSE Raise("get_user")
    /\ UNCHANGED <<argVars, PR_list, forgeVars, metaVars, targetVars, publishVars>>

\* repo.get_commits(author=pr_user)[0].commit.author: outside every try block
GetCommits ==
    /\ pc = "get_commits"
    /\ \E ok \in BOOLEAN :
          /\ Logged(<<Call("get_commits", NoBranch, ok)>>)
          /\ IF ok
             THEN /\ pr_author' = CommitAuthor(original_pr_author).name \o " <"
                                     \o CommitAuthor(original_pr_author).email \o ">"
                  /\ pc' = "get_labels"
                  /\ UNCHANGED uncaught
             ELSE /\ Raise("get_commits")
                  /\ UNCHANGED pr_author
    /\ UNCHANGED <<argVars, PR_list, forgeVars, targetVars, publishVars,
                   merge_commit, PR_IID, release_notes, original_pr_author, orig_pr_title>>

\* ------------------------------------------------------------------------
\* cherryPickPr: the target branches
\* ------------------------------------------------------------------------
\* AlreadyHandled that never recognises the disposition labels
AlreadyHandledNever(L) == FALSE

\* "sweep:done" in labels or "sweep:ignore" in labels: return
AlreadyHandled(L) == "sweep:done" \in L \/ "sweep:ignore" \in L

\* IsSweptFrom without the check: a sweptFrom label is treated as any other
IsSweptFromIgnored(label) == FALSE

\* re.match("^sweptFrom:", label): return
IsSweptFrom(label) == ReMatch("^sweptFrom:", label)

\* what a "sweep:from <branch>" label adds to target_branches_exclude
ExcludedBy(label) ==
    IF ReMatch("^sweep:from ", label) /\ Len(Split(label, " ")) = 2
    THEN {EncodeAscii(Split(label, " ")[2])}
    ELSE {}

\* what an "alsoTargeting:<branch>" label adds to target_branches
AlsoTargetedBy(label) ==
    IF ReMatch("^alsoTargeting:", label) /\ Len(Split(label, ":")) = 2
    THEN {Split(label, ":")[2]}
    ELSE {}

\* RuleApplies with any() in place of all()
RuleAppliesAny(rule, affected) ==
    LET matches == [pkg_name \in affected |-> ReMatch(rule, pkg_name)]
    IN DOMAIN matches # {} /\ \E pkg_name \in DOMAIN matches : matches[pkg_name]

\* matches = [pkg_pattern.match(p) for p in affected]; matches and all(matches)
RuleApplies(rule, affected) ==
    LET matches == [pkg_name \in affected |-> ReMatch(rule, pkg_name)]
    IN DOMAIN matches # {} /\ \A pkg_name \in DOMAIN matches : matches[pkg_name]

\* the label added to the local label set once the targets are known
DispositionLabel(targets) ==
    IF Cardinality(targets) = 0 THEN "sweep:ignore" ELSE "sweep:done"

\* the inner loop over target_branches_exclude: t_excl == tbranch
IsExcluded(branch, exclude) == \E t_excl \in exclude : PyEq(t_excl, PyStr(branch))

\* GetLabels with the names read not kept in labels
GetLabelsNotKept ==
    /\ pc = "get_labels"
    /\ \E ok \in BOOLEAN :
          /\ Logged(<<Call("get_labels", NoBranch, ok)>>)
          /\ IF ok
             THEN /\ labels' = {}
                  /\ UNCHANGED uncaught
                  /\ IF AlreadyHandled(prLabels[merge_commit])
                     THEN pc' = "main_loop" /\ UNCHANGED labelsTodo
                     ELSE /\ labelsTodo' = prLabels[merge_commit]
                          /\ pc' = IF prLabels[merge_commit] = {} THEN "get_files"
                                                                 ELSE "label_loop"
             ELSE /\ Raise("get_labels")
                  /\ UNCHANGED <<labels, labelsTodo>>
    /\ UNCHANGED <<argVars, PR_list, forgeVars, metaVars, publishVars,
                   target_branches, target_branches_exclude, affected_packages, rulesTodo>>

\* labels = set(label.name for label in pr_handle.get_labels()), outside
\* every try block, then the checks for "sweep:done" and "sweep:ignore"
GetLabels ==
    /\ pc = "get_labels"
    /\ \E ok \in BOOLEAN :
          /\ Logged(<<Call("get_labels", NoBranch, ok)>>)
          /\ IF ok
             THEN /\ labels' = prLabels[merge_commit]
                  /\ UNCHANGED uncaught
                  /\ IF AlreadyHandled(prLabels[merge_commit])
                     THEN pc' = "main_loop" /\ UNCHANGED labelsTodo
                     ELSE /\ labelsTodo' = prLabels[merge_commit]
                          /\ pc' = IF prLabels[merge_commit] = {} THEN "get_files"
                                                                 ELSE "label_loop"
             ELSE /\ Raise("get_labels")
                  /\ UNCHANGED <<labels, labelsTodo>>
    /\ UNCHANGED <<argVars, PR_list, forgeVars, metaVars, publishVars,
                   target_branches, target_branches_exclude, affected_packages, rulesTodo>>

\* one iteration of "for label in labels" (a set: any order)
LabelLoop ==
    /\ pc = "label_loop"
    /\ \E label \in labelsTodo :
          IF IsSweptFrom(label)
          THEN /\ pc' = "main_loop"
               /\ UNCHANGED <<labelsTodo, target_branches, target_branches_exclude>>
          ELSE /\ labelsTodo' = labelsTodo \ {label}
               /\ target_branches_exclude' = target_branches_exclude \cup ExcludedBy(label)
               /\ target_branches' = target_branches \cup AlsoTargetedBy(label)
               /\ pc' = IF labelsTodo \ {label} = {} THEN "get_files" ELSE "label_loop"
    /\ UNCHANGED <<argVars, PR_list, forgeVars, log, faults, uncaught, metaVars, publishVars,
                   labels, affected_packages, rulesTodo>>

\* listChangedPackages(pr_handle): pr.get_files(), outside every try block
GetFiles ==
    /\ pc = "get_files"
    /\ \E ok \in BOOLEAN :
          /\ Logged(<<Call("get_files", NoBranch, ok)>>)
          /\ IF ok
             THEN /\ affected_packages' = prFiles[merge_commit]
                  /\ rulesTodo' = DOMAIN target_branch_rules
                  /\ pc' = IF DOMAIN target_branch_rules = {} THEN "disposition"
                                                                ELSE "rule_loop"
                  /\ UNCHANGED uncaught
             ELSE /\ Raise("get_files")
                  /\ UNCHANGED <<affected_packages, rulesTodo>>
    /\ UNCHANGED <<argVars, PR_list, forgeVars, metaVars, publishVars,
                   labels, labelsTodo, target_branches, target_branches_exclude>>

\* RuleLoop with the branches of a rule assigned in place of the update
RuleLoopAssigns ==
    /\ pc = "rule_loop"
    /\ \E rule \in rulesTodo :
          IF ~ReCompiles(rule)
          THEN /\ Raise("re.compile")
               /\ UNCHANGED <<rulesTodo, target_branches>>
          ELSE /\ rulesTodo' = rulesTodo \ {rule}
               /\ target_branches' =
                     IF RuleApplies(rule, affected_packages)
                     THEN target_branch_rules[rule]
                     ELSE target_branches
               /\ pc' = IF rulesTodo \ {rule} = {} THEN "disposition" ELSE "rule_loop"
               /\ UNCHANGED uncaught
    /\ UNCHANGED <<argVars, PR_list, forgeVars, log, faults, metaVars, publishVars,
                   labels, labelsTodo, target_branches_exclude, affected_packages>>

\* one iteration of "for rule, branches in target_branch_rules.items()";
\* re.compile(rule) is outside every try block
RuleLoop ==
    /\ pc = "rule_loop"
    /\ \E rule \in rulesTodo :
          IF ~ReCompiles(rule)
          THEN /\ Raise("re.compile")
               /\ UNCHANGED <<rulesTodo, target_branches>>
          ELSE /\ rulesTodo' = rulesTodo \ {rule}
               /\ target_branches' =
                     IF RuleApplies(rule, affected_packages)
                     THEN target_branches \cup target_branch_rules[rule]
                     ELSE target_branches
               /\ pc' = IF rulesTodo \ {rule} = {} THEN "disposition" ELSE "rule_loop"
               /\ UNCHANGED uncaught
    /\ UNCHANGED <<argVars, PR_list, forgeVars, log, faults, metaVars, publishVars,
                   labels, labelsTodo, target_branches_exclude, affected_packages>>

\* Disposition without the return of a dry run
DispositionNoDryRun ==
    /\ pc = "disposition"
    /\ labels' = labels \cup {DispositionLabel(target_branches)}
    /\ pc' = "set_labels"
    /\ UNCHANGED <<argVars, PR_list, forgeVars, log, faults, uncaught, metaVars, publishVars,
                   labelsTodo, target_branches, target_branches_exclude,
                   affected_packages, rulesTodo>>

\* labels.add("sweep:ignore" or "sweep:done"); if dry_run: return
Disposition ==
    /\ pc = "disposition"
    /\ labels' = labels \cup {DispositionLabel(target_branches)}
    /\ pc' = IF dry_run THEN "main_loop" ELSE "set_labels"
    /\ UNCHANGED <<argVars, PR_list, forgeVars, log, faults, uncaught, metaVars, publishVars,
                   labelsTodo, target_branches, target_branches_exclude,
                   affected_packages, rulesTodo>>

\* SetLabels left out: the publishing starts without the labels written
SetLabelsSkipped ==
    /\ pc = "set_labels"
    /\ branchesTodo' = target_branches
    /\ pc' = "branch_loop"
    /\ UNCHANGED <<argVars, PR_list, forgeVars, log, faults, uncaught, metaVars, targetVars,
                   tbranch, failed, good_branches, failed_branches, failed_last, pr_body>>

\* pr_handle.set_labels(*labels), outside every try block
SetLabels ==
    /\ pc = "set_labels"
    /\ \E ok \in BOOLEAN :
          /\ Logged(<<Call("set_labels", NoBranch, ok)>>)
          /\ IF ok
             THEN /\ prLabels' = [prLabels EXCEPT ![merge_commit] = labels]
                  /\ branchesTodo' = target_branches
                  /\ pc' = "branch_loop"
                  /\ UNCHANGED uncaught
             ELSE /\ Raise("set_labels")
                  /\ UNCHANGED <<prLabels, branchesTodo>>
    /\ UNCHANGED <<argVars, PR_list, pulls, issues, comments, forgeNumber, metaVars, targetVars,
                   tbranch, failed, good_branches, failed_branches, failed_last, pr_body>>


\* ------------------------------------------------------------------------
\* cherryPickPr: the texts
\* ------------------------------------------------------------------------
\* stands for the backquote character, which a TLA+ string cannot hold
Backquote == "~"

\* lines joined with "\n"
RECURSIVE JoinLines(_)
JoinLines(lines) ==
    IF lines = <<>> THEN <<>>
    ELSE IF Len(lines) = 1 THEN lines[1]
    ELSE lines[1] \o <<"\n">> \o JoinLines(Tail(lines))

cherry_pick_branch(branch) == "cherry-pick-2-" \o merge_commit \o "-" \o branch

new_pr_title(branch) == "[sweep:" \o StrReplace(branch, "rel-", "") \o "] " \o orig_pr_title

body_text(branch, hasFailed) ==
    <<"Sweep #", PR_IID, " " \o Backquote, orig_pr_title, Backquote \o " to " \o Backquote,
      branch, Backquote \o ".\n\nAdding original author @", original_pr_author,
      " as watcher.\n\n", release_notes>>
    \o (IF hasFailed THEN <<"\nCloses #", FailedIssuePlaceholder>> ELSE <<>>)

fixer_instructions(branch) ==
    JoinLines(<<
        <<"cherry-pick ", merge_commit, " into ", branch, " failed">>,
        <<"check merge conflicts on a local copy of this repository">>,
        <<Backquote \o Backquote \o Backquote \o "bash">>,
        <<"git fetch upstream">>,
        <<"git checkout upstream/">> \o ShlexQuote(<<branch>>) \o <<" -b ">>
            \o ShlexQuote(<<cherry_pick_branch(branch)>>),
        <<"git cherry-pick -x -m 1 ">> \o ShlexQuote(<<merge_commit>>),
        <<"# Fix the conflicts">>,
        <<"git cherry-pick --continue">>,
        <<"git commit --amend -m ">> \o ShlexQuote(<<"sweep: #", PR_IID, " ", orig_pr_title>>)
            \o <<" --author=">> \o ShlexQuote(<<pr_author>>),
        <<"git push -u origin ">> \o ShlexQuote(<<cherry_pick_branch(branch)>>),
        <<"">>,
        <<"# If you have the GitHub CLI installed the PR can be made with">>,
        <<"gh pr create \\">>,
        <<"     --label ">> \o ShlexQuote(<<"sweep:from ", Basename(source_branch)>>) \o <<" \\">>,
        <<"     --base ">> \o ShlexQuote(<<branch>>) \o <<" \\">>,
        <<"     --repo ">> \o ShlexQuote(<<project_name>>) \o <<" \\">>,
        <<"     --title ">> \o ShlexQuote(<<new_pr_title(branch)>>) \o <<" \\">>,
        <<"     --body ">> \o ShlexQuote(body_text(branch, TRUE)),
        <<Backquote \o Backquote \o Backquote>> >>)

\* The third component of an entry of failed_branches is its recovery text.
\* The text is determined by the branch and by which of the two places added
\* the entry, so the entry holds the place and RecoveryText gives the text.
\* the text kept when create_pull fails
open_pr_instructions(branch) ==
    <<"Failed to open the PR, try to open a PR from ", Dirname(pr_project_name), ":",
      cherry_pick_branch(branch), " ", "to ", branch>>

RecoveryText(entry) ==
    IF entry[3] = "apply" THEN fixer_instructions(entry[1])
    ELSE open_pr_instructions(entry[1])

\* the orders in which "for ... in failed_branches" may visit the set
Orders(S) == {f \in [1..Cardinality(S) -> S] : \A i, j \in 1..Cardinality(S) : f[i] = f[j] => i = j}

comment_lines(good, failedOrder) ==
    << <<"**Sweep summary**\n">>,
       <<"Sweep ran in https://github.com/", "GITHUB_REPOSITORY", "/actions/runs/", "GITHUB_RUN_ID">> >>
    \o (IF good # {}
        THEN << <<"\n### Successful:">> >> \o [i \in 1..Len(Sorted(good)) |-> <<"* ", Sorted(good)[i]>>]
        ELSE <<>>)
    \o (IF Len(failedOrder) > 0
        THEN << <<"\n### Failed:">> >>
             \o Flatten([i \in 1..Len(failedOrder) |->
                          << <<"* **", failedOrder[i][1], "**">>,
                             <<"  ">> \o IndentText(RecoveryText(failedOrder[i])) >>])
        ELSE <<>>)

\* ------------------------------------------------------------------------
\* cherryPickPr: publishing to each target branch
\* ------------------------------------------------------------------------
\* "for tbranch in target_branches" (a set: any order), with the check
\* against target_branches_exclude
BranchLoop ==
    /\ pc = "branch_loop"
    /\ IF branchesTodo = {}
       THEN /\ pc' = "report"
            /\ UNCHANGED <<branchesTodo, tbranch, failed>>
       ELSE \E b \in branchesTodo :
               /\ branchesTodo' = branchesTodo \ {b}
               /\ tbranch' = b
               /\ IF IsExcluded(b, target_branches_exclude)
                  THEN pc' = "branch_loop" /\ UNCHANGED failed
                  ELSE pc' = "create_ref" /\ failed' = FALSE
    /\ UNCHANGED <<argVars, PR_list, forgeVars, log, faults, uncaught, metaVars, targetVars,
                   good_branches, failed_branches, failed_last, pr_body>>

\* where the strategy leads once the remote branch exists
AfterCreateRef == IF strategy = "merge" THEN "merge"
                  ELSE IF strategy = "cherry-pick" THEN "fetch"
                  ELSE "after_apply"

\* pr_repo.create_git_ref(ref, sha=repo.get_branch(tbranch).commit.sha) in a
\* try block; an unknown strategy fails the branch
CreateRef ==
    /\ pc = "create_ref"
    /\ \E got \in BOOLEAN, created \in BOOLEAN :
          /\ (~got => created)
          /\ Logged(IF got THEN <<Call("get_branch", tbranch, TRUE),
                                  Call("create_git_ref", tbranch, created)>>
                           ELSE <<Call("get_branch", tbranch, FALSE)>>)
          /\ IF got /\ created
             THEN /\ pc' = AfterCreateRef
                  /\ failed' = (AfterCreateRef = "after_apply")
             ELSE /\ pc' = "after_apply"
                  /\ failed' = TRUE
    /\ UNCHANGED <<argVars, PR_list, forgeVars, uncaught, metaVars, targetVars,
                   branchesTodo, tbranch, good_branches, failed_branches, failed_last, pr_body>>

\* pr_repo.merge(cherry_pick_branch, commit.sha) in a try block
Merge ==
    /\ pc = "merge"
    /\ \E ok \in BOOLEAN :
          /\ Logged(<<Call("merge", tbranch, ok)>>)
          /\ failed' = ~ok
          /\ pc' = "after_apply"
    /\ UNCHANGED <<argVars, PR_list, forgeVars, uncaught, metaVars, targetVars,
                   branchesTodo, tbranch, good_branches, failed_branches, failed_last, pr_body>>

\* git fetch upstream, git fetch origin, git checkout <branch>: the three
\* statuses are dropped
FetchCheckout ==
    /\ pc = "fetch"
    /\ \E up \in BOOLEAN, origin \in BOOLEAN, checkout \in BOOLEAN :
          Logged(<<Call("git fetch upstream", tbranch, up),
                   Call("git fetch origin", tbranch, origin),
                   Call("git checkout", tbranch, checkout)>>)
    /\ pc' = "cherry_pick"
    /\ UNCHANGED <<argVars, PR_list, forgeVars, uncaught, metaVars, targetVars, publishVars>>

\* CherryPick without git cherry-pick --abort
CherryPickNoAbort ==
    /\ pc = "cherry_pick"
    /\ \E ok \in BOOLEAN :
          /\ Logged(<<Call("git cherry-pick", tbranch, ok)>>)
          /\ failed' = ~ok
          /\ pc' = IF ok THEN "amend" ELSE "after_apply"
    /\ UNCHANGED <<argVars, PR_list, forgeVars, uncaught, metaVars, targetVars,
                   branchesTodo, tbranch, good_branches, failed_branches, failed_last, pr_body>>

\* git cherry-pick -x -m 1 <sha>; on a non-zero status the branch has
\* failed and git cherry-pick --abort runs (its status is dropped)
CherryPick ==
    /\ pc = "cherry_pick"
    /\ \E ok \in BOOLEAN, aborted \in BOOLEAN :
          /\ (ok => aborted)
          /\ Logged(IF ok THEN <<Call("git cherry-pick", tbranch, TRUE)>>
                          ELSE <<Call("git cherry-pick", tbranch, FALSE),
                                 Call("git cherry-pick --abort", tbranch, aborted)>>)
          /\ failed' = ~ok
          /\ pc' = IF ok THEN "amend" ELSE "after_apply"
    /\ UNCHANGED <<argVars, PR_list, forgeVars, uncaught, metaVars, targetVars,
                   branchesTodo, tbranch, good_branches, failed_branches, failed_last, pr_body>>

\* git commit --amend -m 'sweep: #<id> <title>' --author='<author>'
Amend ==
    /\ pc = "amend"
    /\ \E ok \in BOOLEAN :
          /\ Logged(<<Call("git commit --amend", tbranch, ok)>>)
          /\ failed' = ~ok
          /\ pc' = IF ok THEN "push" ELSE "after_apply"
    /\ UNCHANGED <<argVars, PR_list, forgeVars, uncaught, metaVars, targetVars,
                   branchesTodo, tbranch, good_branches, failed_branches, failed_last, pr_body>>

\* Push with the status of git push dropped
PushStatusDropped ==
    /\ pc = "push"
    /\ \E ok \in BOOLEAN :
          /\ Logged(<<Call("git push", tbranch, ok)>>)
          /\ failed' = FALSE
          /\ pc' = "after_apply"
    /\ UNCHANGED <<argVars, PR_list, forgeVars, uncaught, metaVars, targetVars,
                   branchesTodo, tbranch, good_branches, failed_branches, failed_last, pr_body>>

\* git push origin <cherry-pick branch>
Push ==
    /\ pc = "push"
    /\ \E ok \in BOOLEAN :
          /\ Logged(<<Call("git push", tbranch, ok)>>)
          /\ failed' = ~ok
          /\ pc' = "after_apply"
    /\ UNCHANGED <<argVars, PR_list, forgeVars, uncaught, metaVars, targetVars,
                   branchesTodo, tbranch, good_branches, failed_branches, failed_last, pr_body>>

\* AfterApply without failed_branches.add
AfterApplyFailureDropped ==
    /\ pc = "after_apply"
    /\ pc' = IF failed THEN "branch_loop" ELSE "create_pull"
    /\ UNCHANGED <<argVars, PR_list, forgeVars, log, faults, uncaught, metaVars, targetVars,
                   publishVars>>

\* "if failed": the recovery instructions are kept in failed_branches;
\* otherwise the pull request is created next
AfterApply ==
    /\ pc = "after_apply"
    /\ IF failed
       THEN /\ failed_branches' =
                  failed_branches \cup {<<tbranch, merge_commit, "apply">>}
            /\ pc' = "branch_loop"
       ELSE /\ UNCHANGED failed_branches
            /\ pc' = "create_pull"
    /\ UNCHANGED <<argVars, PR_list, forgeVars, log, faults, uncaught, metaVars, targetVars,
                   branchesTodo, tbranch, failed, good_branches, failed_last, pr_body>>

\* repo.create_pull(title, body, head, base) in a try block; "else":
\* good_branches.add(tbranch)
CreatePull ==
    /\ pc = "create_pull"
    /\ \E ok \in BOOLEAN :
          /\ Logged(<<Call("create_pull", tbranch, ok)>>)
          /\ IF ok
             THEN /\ pulls' = Append(pulls,
                        [number |-> forgeNumber,
                         title |-> new_pr_title(tbranch),
                         body |-> body_text(tbranch, FALSE),
                         head |-> Dirname(pr_project_name) \o ":" \o cherry_pick_branch(tbranch),
                         base |-> tbranch,
                         commit |-> merge_commit,
                         labels |-> {}])
                  /\ forgeNumber' = forgeNumber + 1
                  /\ good_branches' = good_branches \cup {tbranch}
                  /\ UNCHANGED failed_branches
                  /\ pc' = "pr_add_to_labels"
             ELSE /\ failed_branches' =
                        failed_branches \cup {<<tbranch, merge_commit, "create_pull">>}
                  /\ UNCHANGED <<pulls, forgeNumber, good_branches>>
                  /\ pc' = "branch_loop"
    /\ UNCHANGED <<argVars, PR_list, prLabels, issues, comments, uncaught, metaVars, targetVars,
                   branchesTodo, tbranch, failed, failed_last, pr_body>>

\* pr.add_to_labels("sweep:from <source branch>"): in the else clause of the
\* try statement, so its exception is not caught
PrAddToLabels ==
    /\ pc = "pr_add_to_labels"
    /\ \E ok \in BOOLEAN :
          /\ Logged(<<Call("pr.add_to_labels", tbranch, ok)>>)
          /\ IF ok
             THEN /\ pulls' = [pulls EXCEPT ![Len(pulls)].labels =
                                   @ \cup {"sweep:from " \o Basename(source_branch)}]
                  /\ pc' = "pr_get_labels"
                  /\ UNCHANGED uncaught
             ELSE /\ Raise("pr.add_to_labels")
                  /\ UNCHANGED pulls
    /\ UNCHANGED <<argVars, PR_list, prLabels, issues, comments, forgeNumber,
                   metaVars, targetVars, publishVars>>

\* "for label in pr.get_labels()" (debug output): in the else clause too
PrGetLabels ==
    /\ pc = "pr_get_labels"
    /\ \E ok \in BOOLEAN :
          /\ Logged(<<Call("pr.get_labels", tbranch, ok)>>)
          /\ IF ok THEN pc' = "branch_loop" /\ UNCHANGED uncaught
                   ELSE Raise("pr.get_labels")
    /\ UNCHANGED <<argVars, PR_list, forgeVars, metaVars, targetVars, publishVars>>


\* ------------------------------------------------------------------------
\* cherryPickPr: the report
\* ------------------------------------------------------------------------
\* "if failed_branches:" before create_issue.  The loop of the report,
\* "for tbranch, merge_commit, failed_branches in failed_branches", rebinds
\* the name to the recovery text of the entry visited last, so what is tested
\* is that text ("" is false); without an entry it is the empty set.
IssueNeverWanted(last) == FALSE

IssueWanted(last) ==
    /\ last # <<>>
    /\ \E i \in 1..Len(RecoveryText(last)) : RecoveryText(last)[i] # ""

\* "if len(target_branches) > 0": the summary is compiled from good_branches
\* and failed_branches (a set: any order)
Report ==
    /\ pc = "report"
    /\ IF Cardinality(target_branches) > 0
       THEN \E failedOrder \in Orders(failed_branches) :
               /\ pr_body' = JoinLines(comment_lines(good_branches, failedOrder))
               /\ failed_last' = IF Len(failedOrder) > 0 THEN failedOrder[Len(failedOrder)]
                                 ELSE <<>>
               /\ tbranch' = IF Len(failedOrder) > 0
                             THEN failedOrder[Len(failedOrder)][1] ELSE tbranch
               /\ pc' = IF Len(failedOrder) > 0 THEN "add_to_labels"
                        ELSE "create_issue_comment"
       ELSE /\ pc' = "main_loop"
            /\ UNCHANGED <<pr_body, tbranch, failed_last>>
    /\ UNCHANGED <<argVars, PR_list, forgeVars, log, faults, uncaught, metaVars, targetVars,
                   branchesTodo, failed, good_branches, failed_branches>>

\* pr_handle.add_to_labels("sweep:failed"), outside every try block
AddToLabels ==
    /\ pc = "add_to_labels"
    /\ \E ok \in BOOLEAN :
          /\ Logged(<<Call("add_to_labels", NoBranch, ok)>>)
          /\ IF ok
             THEN /\ prLabels' = [prLabels EXCEPT ![merge_commit] = @ \cup {"sweep:failed"}]
                  /\ pc' = IF IssueWanted(failed_last)
                           THEN "create_issue" ELSE "create_issue_comment"
                  /\ UNCHANGED uncaught
             ELSE /\ Raise("add_to_labels")
                  /\ UNCHANGED prLabels
    /\ UNCHANGED <<argVars, PR_list, pulls, issues, comments, forgeNumber,
                   metaVars, targetVars, publishVars>>

\* CreateIssue outside the try block: its exception ends the run
CreateIssueUncaught ==
    /\ pc = "create_issue"
    /\ \E ok \in BOOLEAN :
          /\ Logged(<<Call("create_issue", NoBranch, ok)>>)
          /\ IF ok
             THEN /\ issues' = Append(issues,
                        [number |-> forgeNumber,
                         title |-> "Sweep failed for PR " \o orig_pr_title,
                         assignee |-> original_pr_author,
                         commit |-> merge_commit,
                         labels |-> {}])
                  /\ forgeNumber' = forgeNumber + 1
                  /\ pc' = "issue_add_to_labels"
                  /\ UNCHANGED uncaught
             ELSE /\ UNCHANGED <<issues, forgeNumber>>
                  /\ Raise("create_issue")
    /\ UNCHANGED <<argVars, PR_list, prLabels, pulls, comments,
                   metaVars, targetVars, publishVars>>

\* repo.create_issue(issue_title, body, assignee=original_pr_author) in the
\* try block of the report; on GithubException: log and return
CreateIssue ==
    /\ pc = "create_issue"
    /\ \E ok \in BOOLEAN :
          /\ Logged(<<Call("create_issue", NoBranch, ok)>>)
          /\ IF ok
             THEN /\ issues' = Append(issues,
                        [number |-> forgeNumber,
                         title |-> "Sweep failed for PR " \o orig_pr_title,
                         assignee |-> original_pr_author,
                         commit |-> merge_commit,
                         labels |-> {}])
                  /\ forgeNumber' = forgeNumber + 1
                  /\ pc' = "issue_add_to_labels"
             ELSE /\ UNCHANGED <<issues, forgeNumber>>
                  /\ pc' = "main_loop"
    /\ UNCHANGED <<argVars, PR_list, prLabels, pulls, comments, uncaught,
                   metaVars, targetVars, publishVars>>

\* issue.add_to_labels("sweep:failed") and the replacement of the
\* placeholder by the issue number, in the same try block
IssueAddToLabels ==
    /\ pc = "issue_add_to_labels"
    /\ \E ok \in BOOLEAN :
          /\ Logged(<<Call("issue.add_to_labels", NoBranch, ok)>>)
          /\ IF ok
             THEN /\ issues' = [issues EXCEPT ![Len(issues)].labels = @ \cup {"sweep:failed"}]
                  /\ pr_body' = ReplacePiece(pr_body, FailedIssuePlaceholder,
                                             IntToStr(issues[Len(issues)].number))
                  /\ pc' = "create_issue_comment"
             ELSE /\ UNCHANGED <<issues, pr_body>>
                  /\ pc' = "main_loop"
    /\ UNCHANGED <<argVars, PR_list, prLabels, pulls, comments, forgeNumber, uncaught,
                   metaVars, targetVars,
                   branchesTodo, tbranch, failed, good_branches, failed_branches, failed_last>>

\* pr_handle.create_issue_comment(body=pr_body) in the same try block
CreateIssueComment ==
    /\ pc = "create_issue_comment"
    /\ \E ok \in BOOLEAN :
          /\ Logged(<<Call("create_issue_comment", NoBranch, ok)>>)
          /\ comments' = IF ok THEN Append(comments, [commit |-> merge_commit, body |-> pr_body])
                               ELSE comments
          /\ pc' = "main_loop"
    /\ UNCHANGED <<argVars, PR_list, prLabels, pulls, issues, forgeNumber, uncaught,
                   metaVars, targetVars, publishVars>>

\* ------------------------------------------------------------------------
\* The specification
\* ------------------------------------------------------------------------
Next ==
    \/ GetRepo \/ GetPrRepo \/ Setup \/ MainLoop
    \/ GetCommit \/ GitShow \/ GetPull \/ GetUser \/ GetCommits
    \/ GetLabels \/ LabelLoop \/ GetFiles \/ RuleLoop \/ Disposition \/ SetLabels
    \/ BranchLoop \/ CreateRef \/ Merge \/ FetchCheckout \/ CherryPick \/ Amend \/ Push
    \/ AfterApply \/ CreatePull \/ PrAddToLabels \/ PrGetLabels
    \/ Report \/ AddToLabels \/ CreateIssue \/ IssueAddToLabels \/ CreateIssueComment

Spec == Init /\ [][Next]_vars

\* Two merge commits in the window, processed one after the other by the
\* loop of main; each pull request draws its labels from SeriesLabels.
SeriesLabels == {{}, {"sweep:done"}, {"alsoTargeting:rel-8"}}

InitTwo ==
    /\ InitRun
    /\ InitForge
    /\ mergeCommits = {"3f2a1bc", "9c8d7e6"}
    /\ prLabels \in [mergeCommits -> SeriesLabels]
    /\ labelsAtStart = prLabels
    /\ prFiles = [c \in mergeCommits |-> DefaultFiles]
    /\ configRules = DefaultRules

SpecTwo == InitTwo /\ [][Next]_vars

\* The job runs main again over the same window once a run has ended: the
\* forge keeps what the earlier runs wrote, the process starts afresh.
MaxRuns == 2

\* the positions of the log where a run started
RunStarts == {i \in 1..Len(log) : log[i].op = "get_repo"}

InitAgain ==
    /\ InitRun
    /\ InitForge
    /\ mergeCommits = {"3f2a1bc"}
    /\ prLabels \in [mergeCommits -> SeriesLabels]
    /\ labelsAtStart = prLabels
    /\ prFiles = [c \in mergeCommits |-> DefaultFiles]
    /\ configRules = DefaultRules

RunAgain ==
    /\ pc \in {"exit0", "exit1", "aborted"}
    /\ Cardinality(RunStarts) < MaxRuns
    /\ pc' = "get_repo"
    /\ target_branch_rules' = [r \in {} |-> {}]
    /\ PR_list' = {}
    /\ uncaught' = ""
    /\ merge_commit' = ""
    /\ FreshLocalsNext
    /\ UNCHANGED <<strategy, dry_run, mergeCommits, configRules, prFiles, labelsAtStart,
                   forgeVars, log, faults>>

NextAgain == Next \/ RunAgain

SpecAgain == InitAgain /\ [][NextAgain]_vars

TypeOK ==
    /\ pc \in {"get_repo", "get_pr_repo", "setup", "main_loop", "exit0", "exit1", "aborted",
               "get_commit", "git_show", "get_pull", "get_user", "get_commits",
               "get_labels", "label_loop", "get_files", "rule_loop", "disposition",
               "set_labels", "branch_loop", "create_ref", "merge", "fetch", "cherry_pick",
               "amend", "push", "after_apply", "create_pull", "pr_add_to_labels",
               "pr_get_labels", "report", "add_to_labels", "create_issue",
               "issue_add_to_labels", "create_issue_comment"}
    /\ faults \in 0..MaxFaults
    /\ good_branches \subseteq target_branches
    /\ branchesTodo \subseteq target_branches


\* ------------------------------------------------------------------------
\* Properties
\* ------------------------------------------------------------------------
AllBranches == {BranchNames[i] : i \in 1..Len(BranchNames)}

\* the branches named by the "sweep:from <branch>" labels among L
ExcludedNames(L) == {b \in AllBranches : ("sweep:from " \o b) \in L}

\* the branches named by the "alsoTargeting:<branch>" labels among L
IncludedNames(L) == {b \in AllBranches : ("alsoTargeting:" \o b) \in L}

\* the positions of the log where a write was made for merge commit c
Writes(c) == {i \in 1..Len(log) : log[i].commit = c /\ log[i].op \in WriteOps}

\* nothing was written for merge commit c
Untouched(c) ==
    /\ Writes(c) = {}
    /\ prLabels[c] = labelsAtStart[c]
    /\ \A i \in 1..Len(pulls) : pulls[i].commit # c
    /\ \A i \in 1..Len(issues) : issues[i].commit # c
    /\ \A i \in 1..Len(comments) : comments[i].commit # c

\* cherryPickPr has returned for the merge commit it was called with
Returned == pc = "main_loop" /\ merge_commit \in mergeCommits

CarriesSweptLabel(L) ==
    \/ "sweep:done" \in L
    \/ "sweep:ignore" \in L
    \/ \E l \in L : StartsWith(l, "sweptFrom:")

\* C1: a pull request that carries sweep:done, sweep:ignore or a sweptFrom:
\* label when the run starts is never written to and nothing is published
\* for it, whatever its other labels and the order the labels are visited in.
C1_SweptPrIsLeftAlone ==
    \A c \in mergeCommits : CarriesSweptLabel(labelsAtStart[c]) => Untouched(c)

\* the alsoTargeting label was visited first, then the sweptFrom label ended
\* the processing
C1_Witness ==
    /\ Returned
    /\ labelsAtStart[merge_commit] = {"alsoTargeting:rel-7", "sweptFrom:rel-6"}
    /\ target_branches = {"rel-7"}
    /\ \E i \in 1..Len(log) : log[i].op = "get_labels" /\ log[i].ok

\* C2: no step is ever performed for a branch that a "sweep:from <branch>"
\* label of the originating pull request names.
C2_ExcludedBranchNeverPublished ==
    \A i \in 1..Len(log) :
        log[i].branch # NoBranch =>
            log[i].branch \notin ExcludedNames(labelsAtStart[log[i].commit])

\* a rule's branches count exactly when there is a changed path and every
\* changed path matches the rule's pattern
AllPathsMatch(rule, paths) == paths # {} /\ \A p \in paths : ReMatch(rule, p)

RuleDerived(rules, considered, paths) ==
    UNION {rules[r] : r \in {x \in considered : AllPathsMatch(x, paths)}}

\* C3: while and after the rules are evaluated, the candidate set is what the
\* labels gave plus the branches of exactly those evaluated rules that every
\* changed path matches (none when there is no changed path).
C3_RuleDerivedTargets ==
    pc \in {"rule_loop", "disposition"} =>
        target_branches =
            IncludedNames(labelsAtStart[merge_commit])
            \cup RuleDerived(target_branch_rules, DOMAIN target_branch_rules \ rulesTodo,
                             affected_packages)

\* the rule ^Detector/.* with one path under Detector/ and one under Core/
C3_Witness ==
    /\ pc = "disposition"
    /\ target_branch_rules = [r \in {"^Detector/.*"} |-> {"rel-7"}]
    /\ affected_packages = {"Detector/Calo/x.cpp", "Core/y.cpp"}
    /\ target_branches = {}

\* (rule-derived \cup explicit inclusion) - exclusion, for the merge commit
\* being processed
FinalTargets ==
    (RuleDerived(target_branch_rules, DOMAIN target_branch_rules, affected_packages)
     \cup IncludedNames(labelsAtStart[merge_commit]))
    \ ExcludedNames(labelsAtStart[merge_commit])

LabelsWritten ==
    \E i \in 1..Len(log) :
        log[i].op = "set_labels" /\ log[i].ok /\ log[i].commit = merge_commit

\* C4: the disposition label written to the originating pull request is
\* sweep:ignore exactly when the final target set is empty, and sweep:done
\* otherwise.
C4_DispositionFollowsFinalSet ==
    LabelsWritten =>
        /\ ("sweep:ignore" \in prLabels[merge_commit]) = (FinalTargets = {})
        /\ ("sweep:done" \in prLabels[merge_commit]) = (FinalTargets # {})

\* C5: a dry run writes nothing: no label, ref, apply or push step, pull
\* request, issue or comment.
C5_DryRunWritesNothing ==
    dry_run => \A c \in mergeCommits : Untouched(c)

\* a dry run that found targets and returned with the label added only to
\* its local set
C5_Witness ==
    /\ dry_run
    /\ Returned
    /\ target_branches # {}
    /\ "sweep:done" \in labels
    /\ "sweep:done" \notin prLabels[merge_commit]


\* cherryPickPr has ended for its merge commit: it returned or the run ended
ChangeEnded == merge_commit \in mergeCommits /\ pc \in {"main_loop", "exit0", "aborted"}

\* the calls that make up the processing of one target branch
PublishOps ==
    {"get_branch", "create_git_ref", "merge", "git fetch upstream", "git fetch origin",
     "git checkout", "git cherry-pick", "git cherry-pick --abort", "git commit --amend",
     "git push", "create_pull", "pr.add_to_labels"}

\* the ref-creation step was executed for branch b of merge commit c
Attempted(c, b) ==
    \E i \in 1..Len(log) :
        log[i].commit = c /\ log[i].branch = b /\ log[i].op = "get_branch"

\* C6: when the processing of a change has ended and nothing but steps of
\* target branches failed, the ref-creation step was executed for every
\* target branch that is not excluded.
C6_EveryTargetAttempted ==
    (/\ ChangeEnded
     /\ LabelsWritten
     /\ \A i \in 1..Len(log) : ~log[i].ok => log[i].op \in PublishOps)
    => \A b \in target_branches \ ExcludedNames(labelsAtStart[merge_commit]) :
          Attempted(merge_commit, b)

\* the place of a call in CreateRef, Apply, Amend, Push, OpenRequest,
\* AddProvenanceLabel; 0 for the other calls
StepRank(op) ==
    IF op = "create_git_ref" THEN 1
    ELSE IF op \in {"merge", "git cherry-pick"} THEN 2
    ELSE IF op = "git commit --amend" THEN 3
    ELSE IF op = "git push" THEN 4
    ELSE IF op = "create_pull" THEN 5
    ELSE IF op = "pr.add_to_labels" THEN 6
    ELSE 0

\* the steps that come before step r (the merge strategy has no Amend and
\* no Push)
StepsBefore(r) ==
    IF strategy = "cherry-pick" THEN 1..(r - 1) ELSE (1..(r - 1)) \ {3, 4}

SameBranch(i, j) == log[i].commit = log[j].commit /\ log[i].branch = log[j].branch

\* C7: the steps of a target branch run in the order CreateRef, Apply, Amend,
\* Push, OpenRequest, AddProvenanceLabel, each one only after every earlier
\* step of that branch ran and succeeded; nothing runs after a failed step.
C7_StepsInOrder ==
    LET steps == {i \in 1..Len(log) : StepRank(log[i].op) > 0}
    IN \A j \in steps :
          LET earlier == {i \in steps : i < j /\ SameBranch(i, j)}
          IN /\ StepsBefore(StepRank(log[j].op))
                   \subseteq {StepRank(log[i].op) : i \in earlier}
             /\ \A i \in earlier :
                   StepRank(log[i].op) < StepRank(log[j].op) /\ log[i].ok

\* the push of a branch failed and the branch was recorded as failed
C7_Witness ==
    /\ Returned
    /\ \E i \in 1..Len(log) :
          /\ log[i].op = "git push" /\ ~log[i].ok
          /\ \E e \in failed_branches : e[1] = log[i].branch

FailedNames == {e[1] : e \in failed_branches}

ApplyFailed(c, b) ==
    \E i \in 1..Len(log) :
        /\ log[i].commit = c /\ log[i].branch = b
        /\ log[i].op \in {"merge", "git cherry-pick"} /\ ~log[i].ok

\* C8: once all targets are processed, every target branch that is not
\* excluded is in exactly one of good_branches and failed_branches; a good
\* branch has its pull request; a branch whose apply step failed is failed,
\* not good, and its recovery text names the merge commit and the branch.
C8_SucceededOrFailed ==
    pc = "report" =>
        \A b \in target_branches \ ExcludedNames(labelsAtStart[merge_commit]) :
            /\ (b \in good_branches) # (b \in FailedNames)
            /\ Cardinality({e \in failed_branches : e[1] = b}) <= 1
            /\ b \in good_branches =>
                  \E i \in 1..Len(pulls) : pulls[i].base = b /\ pulls[i].commit = merge_commit
            /\ ApplyFailed(merge_commit, b) =>
                  /\ b \in FailedNames /\ b \notin good_branches
                  /\ \A e \in failed_branches :
                        e[1] = b => /\ e[2] = merge_commit
                                    /\ TextContains(RecoveryText(e), merge_commit)
                                    /\ TextContains(RecoveryText(e), b)

\* one branch failed at its apply step, another one succeeded
C8_Witness ==
    /\ pc = "report"
    /\ good_branches # {}
    /\ \E b \in target_branches : b # "" /\ ApplyFailed(merge_commit, b)

IssuesFor(c) == {i \in 1..Len(issues) : issues[i].commit = c}
CommentsFor(c) == {i \in 1..Len(comments) : comments[i].commit = c}
Calls(c, op) == {i \in 1..Len(log) : log[i].commit = c /\ log[i].op = op}

ReportOps == {"add_to_labels", "create_issue", "issue.add_to_labels", "create_issue_comment"}

\* the forge accepted every call of the report of merge commit c
ReportUnhindered(c) ==
    \A i \in 1..Len(log) : (log[i].commit = c /\ log[i].op \in ReportOps) => log[i].ok

HasPiece(text, piece) == \E k \in 1..Len(text) : text[k] = piece

\* C9: for a change with targets whose processing returned: if a branch
\* failed, one tracking issue is created (never more), assigned to the
\* original author and labelled sweep:failed, its number stands in place of
\* the placeholder in the posted summary, and the originating pull request
\* gets sweep:failed (the forge accepting the calls); if no branch failed, no
\* issue is created and sweep:failed is not applied.
C9_TrackingIssue ==
    (Returned /\ LabelsWritten /\ target_branches # {}) =>
        /\ Cardinality(IssuesFor(merge_commit)) <= 1
        /\ Cardinality(Calls(merge_commit, "create_issue")) <= 1
        /\ failed_branches = {} =>
              /\ IssuesFor(merge_commit) = {}
              /\ Calls(merge_commit, "create_issue") = {}
              /\ Calls(merge_commit, "add_to_labels") = {}
              /\ "sweep:failed" \notin prLabels[merge_commit]
        /\ (failed_branches # {} /\ ReportUnhindered(merge_commit)) =>
              /\ Cardinality(IssuesFor(merge_commit)) = 1
              /\ "sweep:failed" \in prLabels[merge_commit]
              /\ \A i \in IssuesFor(merge_commit) :
                    /\ issues[i].assignee = original_pr_author
                    /\ issues[i].labels = {"sweep:failed"}
                    /\ \A k \in CommentsFor(merge_commit) :
                          /\ ~HasPiece(comments[k].body, FailedIssuePlaceholder)
                          /\ (\E e \in failed_branches : e[3] = "apply") =>
                                HasPiece(comments[k].body, IntToStr(issues[i].number))

\* a branch failed at its apply step; the issue went to the author named in
\* the body of the pull request and the summary was posted
C9_Witness ==
    /\ Returned
    /\ \E e \in failed_branches : e[3] = "apply"
    /\ Len(issues) = 1
    /\ issues[1].assignee = "alice"
    /\ Len(comments) = 1
    /\ HasPiece(comments[1].body, IntToStr(issues[1].number))

\* C10: for a change with targets that is not a dry run and whose processing
\* returned, the summary comment was posted exactly once unless the posting
\* itself failed, and it was posted after every step of the target branches
\* and after the tracking issue.
C10_SummaryPostedOnce ==
    (Returned /\ LabelsWritten /\ target_branches # {}) =>
        /\ \/ Cardinality(CommentsFor(merge_commit)) = 1
           \/ \E i \in Calls(merge_commit, "create_issue_comment") : ~log[i].ok
        /\ \A i \in Calls(merge_commit, "create_issue_comment") :
              \A j \in 1..Len(log) :
                  (log[j].commit = merge_commit /\ j # i) => j < i

\* the calls inside the try block of the report
ReportTryOps == {"create_issue", "issue.add_to_labels", "create_issue_comment"}

\* C11: a failure of create_issue, of issue.add_to_labels or of
\* create_issue_comment never ends the run: the exception is not left
\* uncaught, none of the three calls is made twice for a change, and a run in
\* which nothing else failed ends normally with every merge commit processed.
C11_ReportErrorsSwallowed ==
    /\ uncaught \notin ReportTryOps
    /\ \A c \in mergeCommits : \A op \in ReportTryOps : Cardinality(Calls(c, op)) <= 1
    /\ (/\ pc \in {"exit0", "exit1", "aborted"}
        /\ \E i \in 1..Len(log) : ~log[i].ok
        /\ \A i \in 1..Len(log) : ~log[i].ok => log[i].op \in ReportTryOps)
       => /\ pc = "exit0"
          /\ \A c \in mergeCommits : Calls(c, "get_commit") # {}

\* create_issue failed for the first merge commit, the second one was
\* processed afterwards and the run ended normally
C11_Witness ==
    /\ pc = "exit0"
    /\ \E i \in 1..Len(log) :
          /\ log[i].op = "create_issue" /\ ~log[i].ok
          /\ \E j \in (i + 1)..Len(log) :
                log[j].op = "get_labels" /\ log[j].commit # log[i].commit

\* the calls to the forge API
ForgeOps ==
    {"get_repo", "get_pr_repo", "get_commit", "get_pull", "get_user", "get_commits",
     "get_labels", "get_files", "set_labels", "get_branch", "create_git_ref", "merge",
     "create_pull", "pr.add_to_labels", "pr.get_labels", "add_to_labels", "create_issue",
     "issue.add_to_labels", "create_issue_comment"}

\* C12: the exception of a forge call is handled where the call is made (the
\* two top-level lookups end the run with exit status 1): no forge call's
\* exception leaves cherryPickPr and main uncaught.
C12_ForgeErrorsCaught == uncaught \notin ForgeOps

\* position i of the log belongs to the run that started at position g
InRun(g, i) == g < i /\ \A h \in RunStarts : ~(g < h /\ h < i)

\* C13: once a run has written the disposition label of a change, a later
\* run over the same change writes nothing for it (no label, ref, apply
\* step, pull request, issue or comment); within one run set_labels is
\* called at most once per change.
C13_SecondPassWritesNothing ==
    \A g \in RunStarts : \A c \in mergeCommits :
        /\ (\E i \in 1..(g - 1) : log[i].commit = c /\ log[i].op = "set_labels" /\ log[i].ok)
              => \A j \in (g + 1)..Len(log) : log[j].commit = c => log[j].op \notin WriteOps
        /\ Cardinality({i \in Calls(c, "set_labels") : InRun(g, i)}) <= 1

\* the first run wrote sweep:done and published; the second run read the
\* labels of the same pull request and returned
C13_Witness ==
    /\ pc = "main_loop" /\ PR_list = {}
    /\ Cardinality(RunStarts) = 2
    /\ Len(pulls) > 0
    /\ \E g \in RunStarts :
          /\ \E i \in 1..(g - 1) : log[i].op = "set_labels" /\ log[i].ok
          /\ \E j \in (g + 1)..Len(log) : log[j].op = "get_labels" /\ log[j].ok
    /\ log[Len(log)].op = "get_labels"

\* what the labels of L and the rules of R give, whatever the order they are
\* visited in
TargetsOf(L, R) ==
    UNION {AlsoTargetedBy(l) : l \in L}
    \cup UNION {target_branch_rules[r] : r \in {x \in R : RuleApplies(x, affected_packages)}}

ExclusionsOf(L) == UNION {ExcludedBy(l) : l \in L}

\* C14: the target set and the exclusion set are determined by the set of
\* labels and the set of rules visited so far, not by the order of the
\* visits, and both loops have ended when the disposition is decided.
C14_OrderIndependentTargets ==
    /\ pc = "label_loop" =>
          /\ target_branches = TargetsOf(labels \ labelsTodo, {})
          /\ target_branches_exclude = ExclusionsOf(labels \ labelsTodo)
    /\ pc \in {"get_files", "rule_loop", "disposition"} =>
          /\ target_branches = TargetsOf(labels, DOMAIN target_branch_rules \ rulesTodo)
          /\ target_branches_exclude = ExclusionsOf(labels)
    /\ pc = "disposition" => labelsTodo = {} /\ rulesTodo = {}

\* two rules and a label: the label gave rel-8, one of the rules rel-7
C14_Witness ==
    /\ pc = "disposition"
    /\ Cardinality(DOMAIN target_branch_rules) = 2
    /\ labels = {"alsoTargeting:rel-8"}
    /\ affected_packages = {"Detector/Calo/x.cpp"}
    /\ target_branches = {"rel-7", "rel-8"}

\* C15: for a change whose pull request carries sweep:done, sweep:ignore or
\* a sweptFrom: label, the only forge calls made are the retrieval of the
\* merge commit, of the pull request and of its labels.
C15_OnlyRetrievalCalls ==
    \A i \in 1..Len(log) :
        (/\ log[i].commit \in mergeCommits
         /\ CarriesSweptLabel(labelsAtStart[log[i].commit])
         /\ log[i].op \in ForgeOps)
        => log[i].op \in {"get_commit", "get_pull", "get_labels"}

\* the git commands of the cherry-pick strategy
ReplayCommands ==
    {"git fetch upstream", "git fetch origin", "git checkout", "git cherry-pick",
     "git commit --amend", "git push"}

\* C16: in the cherry-pick strategy a non-zero status of fetch, checkout,
\* cherry-pick, commit --amend or push makes the target branch a failed
\* branch: no pull request is opened for it afterwards, it is among the
\* failed branches when the report starts, and the run is not ended by it.
C16_GitFailureFailsBranch ==
    \A i \in 1..Len(log) :
        (log[i].op \in ReplayCommands /\ ~log[i].ok) =>
            /\ \A j \in (i + 1)..Len(log) : SameBranch(i, j) => log[j].op # "create_pull"
            /\ (pc = "report" /\ log[i].commit = merge_commit) => log[i].branch \in FailedNames
            /\ (i = Len(log) => pc # "aborted")

\* the positions after i where git cherry-pick --abort ran for the branch of
\* position i
AbortsAfter(i) ==
    {k \in (i + 1)..Len(log) : log[k].op = "git cherry-pick --abort" /\ SameBranch(i, k)}

\* C17: after a git cherry-pick with a non-zero status, git cherry-pick
\* --abort is run for that branch before anything else: before the branch
\* is recorded as failed, before every later call (the steps of the other
\* branches and of the other changes, the calls of the report).
C17_AbortBeforeAnythingElse ==
    \A i \in 1..Len(log) :
        (log[i].op = "git cherry-pick" /\ ~log[i].ok) =>
            /\ \A j \in (i + 1)..Len(log) :
                  j \notin AbortsAfter(i) => \E k \in AbortsAfter(i) : k < j
            /\ (/\ log[i].commit = merge_commit
                /\ \E e \in failed_branches : e[1] = log[i].branch)
               => AbortsAfter(i) # {}
            /\ pc \in {"branch_loop", "create_ref", "report"} => AbortsAfter(i) # {}

\* the cherry-pick failed for one branch and was aborted, then the steps of
\* another branch ran
C17_Witness ==
    \E i \in 1..Len(log) :
        /\ log[i].op = "git cherry-pick" /\ ~log[i].ok
        /\ log[i + 1].op = "git cherry-pick --abort"
        /\ \E j \in (i + 2)..Len(log) :
              /\ log[j].op = "git cherry-pick"
              /\ log[j].commit = log[i].commit /\ log[j].branch # log[i].branch
        /\ pc = "report"
        /\ \E e \in failed_branches : e[1] = log[i].branch

LookupOps == {"get_commit", "git show", "get_pull"}

\* the output of git show held no pull request number for merge commit c
NoPrId(c) ==
    /\ Calls(c, "git show") # {}
    /\ Calls(c, "get_pull") = {}
    /\ ~(merge_commit = c /\ pc = "get_pull")

\* the merge commit, the pull request number or the pull request of c could
\* not be obtained
LookupFailed(c) ==
    \/ \E i \in Calls(c, "get_commit") : ~log[i].ok
    \/ \E i \in Calls(c, "get_pull") : ~log[i].ok
    \/ NoPrId(c)

\* C18: a change whose merge commit, pull request number or pull request
\* cannot be obtained is left: no call but the lookups is made for it,
\* nothing is written for it, and cherryPickPr returns; a run in which
\* nothing else failed ends normally with every merge commit processed.
C18_UnresolvableChangeSkipped ==
    /\ \A c \in mergeCommits :
          LookupFailed(c) =>
              /\ Untouched(c)
              /\ \A i \in 1..Len(log) : log[i].commit = c => log[i].op \in LookupOps
              /\ merge_commit = c => pc \in {"main_loop", "exit0"}
    /\ (/\ pc \in {"exit0", "exit1", "aborted"}
        /\ \E c \in mergeCommits : LookupFailed(c)
        /\ \A i \in 1..Len(log) : ~log[i].ok => log[i].op \in LookupOps)
       => /\ pc = "exit0"
          /\ \A c \in mergeCommits : Calls(c, "get_commit") # {}

\* the pull request of the first merge commit could not be fetched; the
\* second one was processed afterwards and its pull request was opened
C18_Witness ==
    /\ pc = "exit0"
    /\ \E i \in 1..Len(log) :
          /\ log[i].op = "get_pull" /\ ~log[i].ok
          /\ \E j \in (i + 1)..Len(log) :
                log[j].op = "create_pull" /\ log[j].ok /\ log[j].commit # log[i].commit

\* C19: a rule whose pattern does not compile contributes no branch and the
\* other rules are still evaluated: the run is not ended by it, and when the
\* disposition is decided the targets are what the labels and the rules
\* with a well-formed pattern give.
C19_MalformedRuleSkipped ==
    /\ uncaught # "re.compile"
    /\ pc = "disposition" =>
          target_branches =
              TargetsOf(labels, {r \in DOMAIN target_branch_rules : ReCompiles(r)})

\* C20: when no branch is left after the excluded branches are removed from
\* the targets, no call of the report is made for the change: no summary
\* comment, no tracking issue, no sweep:failed label.
C20_NoReportWithoutTargets ==
    \A i \in 1..Len(log) :
        (log[i].commit = merge_commit /\ log[i].op \in ReportOps) => FinalTargets # {}

\* the branches named by the well-formed "alsoTargeting:<branch>" labels
\* among L: the name is not empty and holds no further ":"
WellFormedInclusions(L) ==
    {b \in AllBranches : b # "" /\ ("alsoTargeting:" \o b) \in L}

\* C21: when the labels have been visited, the target set holds the branch
\* of every well-formed alsoTargeting: label and nothing else: a label with
\* an empty branch name or with a further ":" adds nothing.
C21_MalformedInclusionIgnored ==
    pc = "get_files" => target_branches = WellFormedInclusions(labels)

\* C22: every step of a target branch comes after a successful set_labels
\* of its change in the same run, and from then on the pull request carries
\* sweep:done, whether the branches fail or the run stops part-way; a run
\* started later makes no step of a target branch for that change.
C22_DispositionBeforePublishing ==
    \A i \in 1..Len(log) :
        log[i].op \in PublishOps =>
            /\ \E k \in 1..(i - 1) :
                  /\ log[k].op = "set_labels" /\ log[k].ok
                  /\ log[k].commit = log[i].commit
                  /\ \A g \in RunStarts : ~(k < g /\ g < i)
            /\ "sweep:done" \in prLabels[log[i].commit]
            /\ \A g \in RunStarts :
                  g > i => \A j \in (g + 1)..Len(log) :
                              log[j].commit = log[i].commit => log[j].op \notin PublishOps

\* the only target branch failed in the first run; the second run read the
\* labels of the pull request and returned
C22_Witness ==
    /\ pc = "main_loop" /\ PR_list = {}
    /\ Cardinality(RunStarts) = 2
    /\ Len(pulls) = 0
    /\ \E i \in 1..Len(log) :
          /\ log[i].op = "merge" /\ ~log[i].ok
          /\ \E g \in RunStarts : g > i
    /\ log[Len(log)].op = "get_labels" /\ log[Len(log)].ok
    /\ "sweep:done" \in prLabels[merge_commit]

\* set_labels succeeded for merge commit c
DispositionWritten(c) == \E i \in Calls(c, "set_labels") : log[i].ok

\* C23: no label of the pull request is ever removed; the disposition write
\* leaves the labels read when the processing started plus exactly one of
\* sweep:done and sweep:ignore (the report may add sweep:failed later), and
\* without the write the labels are unchanged.
C23_DispositionWriteFrame ==
    \A c \in mergeCommits :
        LET added == prLabels[c] \ labelsAtStart[c]
        IN /\ labelsAtStart[c] \subseteq prLabels[c]
           /\ ~DispositionWritten(c) => added = {}
           /\ DispositionWritten(c) =>
                 /\ added \ {"sweep:failed"} \in {{"sweep:done"}, {"sweep:ignore"}}
                 /\ (c = merge_commit /\ pc = "branch_loop" /\ log[Len(log)].op = "set_labels")
                       => added \in {{"sweep:done"}, {"sweep:ignore"}}

\* the write has just been made for a pull request with two labels
C23_Witness ==
    /\ pc = "branch_loop"
    /\ log[Len(log)].op = "set_labels" /\ log[Len(log)].ok
    /\ labelsAtStart[merge_commit] = {"sweep:from rel-7", "alsoTargeting:rel-8"}
    /\ prLabels[merge_commit] = {"sweep:from rel-7", "alsoTargeting:rel-8", "sweep:done"}

====
